---- MODULE Spec2Model ----
(***************************************************************************)
(* Model of refinedet/links/model/multibox_loss.py: the multibox loss of a *)
(* RefineDet detector (Huber localisation loss on the positive anchors,    *)
(* hard-negative-mined classification loss, both optionally gated by the   *)
(* objectness mask of the anchor refinement module).                       *)
(*                                                                         *)
(* Arrays of shape (B, K) are tuples of B tuples of K entries; an array of *)
(* shape (B, K, D) has a tuple of D entries per anchor.  An optional       *)
(* argument that is not given (None) is the empty tuple.  Losses are       *)
(* integers: the per-element cross entropy the framework returns is an     *)
(* input of the model (a non-negative number per anchor), the Huber loss   *)
(* is computed in units of one half, and a quotient a / b is kept as the   *)
(* pair [num |-> a, den |-> b].  Scalars returned by the function live in  *)
(* a heap of objects, so that two results can be one object.               *)
(***************************************************************************)
EXTENDS Integers, Sequences, FiniteSets, TLC

VARIABLES
  mb_locs,         \* predicted boxes, shape (B, K, LocDim)
  mb_confs_shape,  \* shape of the predicted confidences
  ce,              \* what the framework's unreduced cross entropy returns, flat
  gt_mb_locs,      \* ground-truth boxes, shape (B, K, LocDim)
  gt_mb_labels,    \* ground-truth labels, shape (B, K)
  k,               \* hard-negative ratio, the fraction <<numerator, denominator>>
  binarize,        \* two-class (sigmoid) mode
  arm_confs,       \* None or refinement logits, shape (B, K, 1)
  arm_locs,        \* None or refinement boxes, shape (B, K, LocDim)
  pc,              \* "call", "returned" or "raised"
  heap,            \* the scalar objects the call created
  loc_loss,        \* reference (heap index) of the first result, 0 before return
  conf_loss,       \* reference (heap index) of the second result, 0 before return
  locals           \* the local variables of the call when it ended

vars == <<mb_locs, mb_confs_shape, ce, gt_mb_locs, gt_mb_labels, k, binarize,
          arm_confs, arm_locs, pc, heap, loc_loss, conf_loss, locals>>

inputs == <<mb_locs, mb_confs_shape, ce, gt_mb_locs, gt_mb_labels, k, binarize,
            arm_confs, arm_locs>>

----------------------------------------------------------------------------
(* Bounds of the model *)

MaxB == 2
MaxK == 3
MaxN == 4
NClass == 2
LocDim == 2

(* Input values *)

None == <<>>

Shapes == {s \in (1..MaxB) \X (1..MaxK) : s[1] * s[2] <= MaxN}

LabelVals == {0, 1}

\* per-element cross entropies the framework may return (never negative)
LossVals == {0, 1}

\* k = 1/2, 3/2 and 3 (the paper's value)
Ratios == {<<1, 2>>, <<3, 2>>, <<3, 1>>}

\* logits of the refinement module: p(-2) = 0.0067 <= 0.01 < p(0) = 0.27
ArmConfVals == {-2, 0}

Arr(B, K, V) == [1..B -> [1..K -> V]]

ConstArr(B, K, v) == [b \in 1..B |-> [j \in 1..K |-> v]]

Box(v) == [c \in 1..LocDim |-> v]

----------------------------------------------------------------------------
(* Array helpers *)

RECURSIVE SumSeq(_)
SumSeq(s) == IF s = <<>> THEN 0 ELSE Head(s) + SumSeq(Tail(s))

SumAll(a) == SumSeq([b \in DOMAIN a |-> SumSeq(a[b])])

RECURSIVE Prod(_)
Prod(s) == IF s = <<>> THEN 1 ELSE Head(s) * Prod(Tail(s))

ShapeOf(a) == <<Len(a), Len(a[1])>>

AsType(flag) == IF flag THEN 1 ELSE 0

Abs(d) == IF d < 0 THEN -d ELSE d

Flatten(a) ==
  LET K == Len(a[1])
  IN [i \in 1..(Len(a) * K) |-> a[((i - 1) \div K) + 1][((i - 1) % K) + 1]]

Reshape(flat, shape) ==
  [b \in 1..shape[1] |-> [j \in 1..shape[2] |-> flat[(b - 1) * shape[2] + j]]]

----------------------------------------------------------------------------
(* _elementwise_softmax_cross_entropy(x, t, two_class).  x is given by its  *)
(* shape; cevals is what the framework's cross entropy (reduce='no')        *)
(* returns for the flattened x and t, one value per element of t.           *)

ButLast(shape) == SubSeq(shape, 1, Len(shape) - 1)

Raised(what) == [status |-> what, value |-> None]

\* the same without the assertion on the shapes
_elementwise_no_assert(x_shape, t, two_class, cevals) ==
  LET shape == ShapeOf(t)
      tf == Flatten(t)
  IN IF two_class
       THEN IF <<Prod(x_shape)>> # <<Len(tf)>>
              THEN Raised("InvalidType")
              ELSE [status |-> "ok", value |-> Reshape(cevals, shape)]
       ELSE IF x_shape[Len(x_shape)] = 0
               \/ Prod(x_shape) \div x_shape[Len(x_shape)] # Len(tf)
              THEN Raised("InvalidType")
              ELSE [status |-> "ok", value |-> Reshape(cevals, shape)]

_elementwise_softmax_cross_entropy(x_shape, t, two_class, cevals) ==
  LET shape == ShapeOf(t)
      tf == Flatten(t)
  IN IF ButLast(x_shape) # shape
       THEN Raised("AssertionError")
     ELSE IF two_class
       THEN \* F.flatten(x); sigmoid_cross_entropy wants x.shape == t.shape
            IF <<Prod(x_shape)>> # <<Len(tf)>>
              THEN Raised("InvalidType")
              ELSE [status |-> "ok", value |-> Reshape(cevals, shape)]
       ELSE \* F.reshape(x, (-1, C)); softmax_cross_entropy wants one row per t
            IF x_shape[Len(x_shape)] = 0
               \/ Prod(x_shape) \div x_shape[Len(x_shape)] # Len(tf)
              THEN Raised("InvalidType")
              ELSE [status |-> "ok", value |-> Reshape(cevals, shape)]

----------------------------------------------------------------------------
(* _hard_negative(x, positive, k, arm_objectness) *)

\* the results argsort may give for the positions S of one row: every order that
\* sorts them (the order among equal entries is the sort's own)
RECURSIVE ArgsortOf(_, _)
ArgsortOf(S, row) ==
  IF S = {} THEN {<<>>}
  ELSE UNION {{<<i>> \o rest : rest \in ArgsortOf(S \ {i}, row)} :
                i \in {m \in S : \A j \in S : row[m] <= row[j]}}

Argsort(row) == ArgsortOf(DOMAIN row, row)

\* argsort of an argsort result: the 0-based rank of every position
Rank(order) == [j \in DOMAIN order |-> (CHOOSE i \in DOMAIN order : order[i] = j) - 1]

\* the same with (1 - positive): the sign of the score is lost
ScoreNoNegate(x, positive, arm_objectness) ==
  [j \in DOMAIN x |->
     IF arm_objectness = None
       THEN x[j] * (1 - AsType(positive[j]))
       ELSE x[j] * (1 - AsType(positive[j])) * arm_objectness[j]]

\* x * (positive - 1) [* arm_objectness], one row
Score(x, positive, arm_objectness) ==
  [j \in DOMAIN x |->
     IF arm_objectness = None
       THEN x[j] * (AsType(positive[j]) - 1)
       ELSE x[j] * (AsType(positive[j]) - 1) * arm_objectness[j]]

\* the same with rank <= in place of rank <
CutoffLE(rank, n_pos, kk) ==
  [j \in DOMAIN rank |-> rank[j] * kk[2] <= n_pos * kk[1]]

\* rank < positive.sum(axis=1) * k, one row with n_pos positives, k = kk[1] / kk[2]
Cutoff(rank, n_pos, kk) ==
  [j \in DOMAIN rank |-> rank[j] * kk[2] < n_pos * kk[1]]

RowSum(positive) == SumSeq([i \in DOMAIN positive |-> AsType(positive[i])])

Row(a, b) == IF a = None THEN None ELSE a[b]

\* the same with the keep count taken over the whole batch
_hard_negative_batch(x, positive, kk, arm_objectness) ==
  LET total == SumSeq([b \in DOMAIN positive |-> RowSum(positive[b])])
      rows == [b \in DOMAIN x |->
                 {Cutoff(Rank(o), total, kk) :
                    o \in Argsort(Score(x[b], positive[b], Row(arm_objectness, b)))}]
  IN {hn \in [DOMAIN x -> UNION {rows[b] : b \in DOMAIN x}] :
        \A b \in DOMAIN x : hn[b] \in rows[b]}

\* the masks _hard_negative may return, one per outcome of the sorts (axis=1:
\* every sample is sorted on its own)
_hard_negative(x, positive, kk, arm_objectness) ==
  LET rows == [b \in DOMAIN x |->
                 {Cutoff(Rank(o), RowSum(positive[b]), kk) :
                    o \in Argsort(Score(x[b], positive[b], Row(arm_objectness, b)))}]
  IN {hn \in [DOMAIN x -> UNION {rows[b] : b \in DOMAIN x}] :
        \A b \in DOMAIN x : hn[b] \in rows[b]}

----------------------------------------------------------------------------
(* multibox_loss *)

\* the same with the offset added
ShiftPlus(gt, arm) ==
  IF arm = None THEN gt
  ELSE [b \in DOMAIN gt |-> [j \in DOMAIN gt[b] |->
          [c \in DOMAIN gt[b][j] |-> gt[b][j][c] + arm[b][j][c]]]]

\* line 84: gt_mb_locs -= arm_locs
ShiftTargets(gt, arm) ==
  IF arm = None THEN gt
  ELSE [b \in DOMAIN gt |-> [j \in DOMAIN gt[b] |->
          [c \in DOMAIN gt[b][j] |-> gt[b][j][c] - arm[b][j][c]]]]

\* the same with >= 0
PositiveGE(labels) ==
  [b \in DOMAIN labels |-> [j \in DOMAIN labels[b] |-> labels[b][j] >= 0]]

\* line 86: gt_mb_labels.array > 0
Positive(labels) ==
  [b \in DOMAIN labels |-> [j \in DOMAIN labels[b] |-> labels[b][j] > 0]]

\* line 87: positive.sum()
NPositive(positive) == SumSeq([b \in DOMAIN positive |-> RowSum(positive[b])])

\* the linear branch alone
HuberLinear(d) == 2 * Abs(d) - 1

\* twice the Huber loss with delta = 1: d^2 / 2 if |d| <= 1, else |d| - 1/2
Huber2(d) == IF Abs(d) <= 1 THEN d * d ELSE 2 * Abs(d) - 1

\* line 92: F.huber_loss(mb_locs, gt_mb_locs, 1, reduce='no')
HuberLoss(x, t) ==
  [b \in DOMAIN x |-> [j \in DOMAIN x[b] |->
     [c \in DOMAIN x[b][j] |-> Huber2(x[b][j][c] - t[b][j][c])]]]

\* lines 93-102: exp(a) / (exp(a) + exp(1 - a)) <= 0.01 iff a <= (1 - ln 99) / 2,
\* which is -1.797...; for an integer logit a, iff a <= -2
Objectness(confs) ==
  IF confs = None THEN None
  ELSE [b \in DOMAIN confs |-> [j \in DOMAIN confs[b] |->
          IF confs[b][j][1] <= -2 THEN 0 ELSE 1]]

\* lines 104-107: the per-anchor localisation loss after the masks
LocTerms(huber, positive, objectness) ==
  [b \in DOMAIN huber |-> [j \in DOMAIN huber[b] |->
     IF objectness = None
       THEN SumSeq(huber[b][j]) * AsType(positive[b][j])
       ELSE SumSeq(huber[b][j]) * AsType(positive[b][j]) * objectness[b][j]]]

\* lines 114-115: positive *= objectness.astype(positive.dtype)
Narrow(positive, objectness) ==
  IF objectness = None THEN positive
  ELSE [b \in DOMAIN positive |-> [j \in DOMAIN positive[b] |->
          positive[b][j] /\ (objectness[b][j] # 0)]]

\* line 116: conf_loss *= logical_or(positive, hard_negative)
ConfTerms(conf, positive, hard_negative) ==
  [b \in DOMAIN conf |-> [j \in DOMAIN conf[b] |->
     conf[b][j] * AsType(positive[b][j] \/ hard_negative[b][j])]]

\* the same dividing by a count of the mask as it is at that line
ReduceRecount(terms, positive, n_positive) ==
  [num |-> SumAll(terms), den |-> NPositive(positive)]

\* lines 108 and 117: F.sum(loss) / n_positive, with positive as it is at that line
Reduce(terms, positive, n_positive) == [num |-> SumAll(terms), den |-> n_positive]

Zero == [num |-> 0, den |-> 1]

\* the same with one zero scalar per result
TwoZeros == [heap |-> <<Zero, Zero>>, loc_loss |-> 1, conf_loss |-> 2]

\* lines 89-90: z = Variable(zeros(())); return z, z
DegenerateReturn == [heap |-> <<Zero>>, loc_loss |-> 1, conf_loss |-> 1]

\* line 119: return loc_loss, conf_loss
Return(loc, conf) == [heap |-> <<loc, conf>>, loc_loss |-> 1, conf_loss |-> 2]

NoLocals ==
  [gt_mb_locs |-> None, positive |-> None, n_positive |-> 0, objectness |-> None,
   loc_terms |-> None, conf_elem |-> None, hard_negative |-> None,
   conf_terms |-> None, divisors |-> <<>>]

Outcome(status, ret, loc) ==
  [status |-> status, heap |-> ret.heap, loc_loss |-> ret.loc_loss,
   conf_loss |-> ret.conf_loss, locals |-> loc]

NoReturn == [heap |-> <<>>, loc_loss |-> 0, conf_loss |-> 0]

\* the outcomes of one call: more than one only when the sorts have ties
multibox_loss_outcomes(locs, confs_shape, cevals, gt_locs, gt_labels, kk, bin, a_confs, a_locs) ==
  LET gt == ShiftTargets(gt_locs, a_locs)
      positive == Positive(gt_labels)
      n_positive == NPositive(positive)
      l0 == [NoLocals EXCEPT !.gt_mb_locs = gt, !.positive = positive,
                             !.n_positive = n_positive]
  IN IF n_positive = 0 THEN {Outcome("returned", DegenerateReturn, l0)}
     ELSE
       LET objectness == Objectness(a_confs)
           loc_terms == LocTerms(HuberLoss(locs, gt), positive, objectness)
           loc == Reduce(loc_terms, positive, n_positive)
           l1 == [l0 EXCEPT !.objectness = objectness, !.loc_terms = loc_terms,
                            !.divisors = <<n_positive>>]
           elem == _elementwise_softmax_cross_entropy(confs_shape, gt_labels, bin, cevals)
       IN IF elem.status # "ok" THEN {Outcome(elem.status, NoReturn, l1)}
          ELSE
            {LET narrowed == Narrow(positive, objectness)
                 conf_terms == ConfTerms(elem.value, narrowed, hn)
                 conf == Reduce(conf_terms, narrowed, n_positive)
             IN Outcome("returned", Return(loc, conf),
                        [l1 EXCEPT !.positive = narrowed, !.conf_elem = elem.value,
                                   !.hard_negative = hn, !.conf_terms = conf_terms,
                                   !.divisors = <<n_positive, n_positive>>])
             : hn \in _hard_negative(elem.value, positive, kk, objectness)}

multibox_loss ==
  /\ pc = "call"
  /\ \E r \in multibox_loss_outcomes(mb_locs, mb_confs_shape, ce, gt_mb_locs,
                                     gt_mb_labels, k, binarize, arm_confs, arm_locs) :
       /\ pc' = (IF r.status = "returned" THEN "returned" ELSE r.status)
       /\ heap' = r.heap
       /\ loc_loss' = r.loc_loss
       /\ conf_loss' = r.conf_loss
       /\ locals' = r.locals
  /\ UNCHANGED inputs

----------------------------------------------------------------------------
(* The calls that are checked *)

NotCalled ==
  /\ pc = "call"
  /\ heap = <<>>
  /\ loc_loss = 0
  /\ conf_loss = 0
  /\ locals = NoLocals

\* hard-negative mining: every label, loss, objectness and ratio
InitMining ==
  \E s \in Shapes :
    /\ gt_mb_labels \in Arr(s[1], s[2], LabelVals)
    /\ ce \in [1..(s[1] * s[2]) -> LossVals]
    /\ arm_confs \in {None} \cup Arr(s[1], s[2], {<<a>> : a \in ArmConfVals})
    /\ k \in Ratios
    /\ mb_locs = ConstArr(s[1], s[2], Box(0))
    /\ gt_mb_locs = ConstArr(s[1], s[2], Box(2))
    /\ arm_locs = None
    /\ binarize = FALSE
    /\ mb_confs_shape = <<s[1], s[2], NClass>>

\* localisation: every label, target and refinement box
InitLoc ==
  \E s \in Shapes :
    /\ gt_mb_labels \in Arr(s[1], s[2], LabelVals)
    /\ ce = [i \in 1..(s[1] * s[2]) |-> 1]
    /\ arm_confs = None
    /\ k = <<3, 1>>
    /\ mb_locs \in {ConstArr(s[1], s[2], Box(v)) : v \in {0, 1}}
    /\ gt_mb_locs \in Arr(s[1], s[2], {Box(v) : v \in {0, 2}})
    /\ arm_locs \in {None} \cup Arr(s[1], s[2], {Box(v) : v \in {0, 1}})
    /\ binarize = FALSE
    /\ mb_confs_shape = <<s[1], s[2], NClass>>

\* shapes of the predicted confidences, in both modes
InitShape ==
  \E s \in Shapes :
    /\ gt_mb_labels \in Arr(s[1], s[2], LabelVals)
    /\ ce = [i \in 1..(s[1] * s[2]) |-> 1]
    /\ arm_confs = None
    /\ k = <<3, 1>>
    /\ mb_locs = ConstArr(s[1], s[2], Box(0))
    /\ gt_mb_locs = ConstArr(s[1], s[2], Box(0))
    /\ arm_locs = None
    /\ binarize \in BOOLEAN
    /\ mb_confs_shape \in
         IF binarize THEN {<<s[1], s[2]>>, <<s[1], s[2], 1>>, <<s[1], s[2], NClass>>}
         ELSE {<<s[1], s[2]>>, <<s[1], s[2], NClass>>}

Init == NotCalled /\ (InitMining \/ InitLoc \/ InitShape)

Next == multibox_loss

Spec == Init /\ [][Next]_vars

----------------------------------------------------------------------------
(* Properties.  They read the inputs and the call's results, and recompute  *)
(* what they need from the inputs on their own.                             *)

Samples == DOMAIN gt_mb_labels

AnchorsOf(b) == DOMAIN gt_mb_labels[b]

Called == pc # "call"

Returned == pc = "returned"

LabelPositive(b, j) == gt_mb_labels[b][j] > 0

NoPositiveLabel == \A b \in Samples : \A j \in AnchorsOf(b) : ~LabelPositive(b, j)

PositivesOf(b) == Cardinality({j \in AnchorsOf(b) : LabelPositive(b, j)})

BatchPositives == Cardinality({a \in Samples \X (1..MaxK) :
                                 a[2] \in AnchorsOf(a[1]) /\ LabelPositive(a[1], a[2])})

\* the call went past the degenerate return and through hard-negative mining
Mined == Returned /\ ~NoPositiveLabel

SelectedOf(b) == Cardinality({j \in AnchorsOf(b) : locals.hard_negative[b][j]})

\* objectness of an anchor as the loss sees it: 1 when no mask is given
ObjectOne(b, j) == locals.objectness = None \/ locals.objectness[b][j] = 1

LocValue == heap[loc_loss]

ConfValue == heap[conf_loss]

\* C1: when no anchor of the batch has a label > 0 the call returns zero for both
\* losses, whatever the other inputs, and divides by nothing; and no call ever
\* divides by zero.
C1_DegenerateZero ==
  /\ (Called /\ NoPositiveLabel) =>
        /\ Returned
        /\ LocValue.num = 0
        /\ ConfValue.num = 0
        /\ locals.divisors = <<>>
  /\ \A i \in DOMAIN locals.divisors : locals.divisors[i] # 0

C1_Witness ==
  /\ Returned
  /\ NoPositiveLabel
  /\ arm_confs # None
  /\ k = <<1, 2>>
  /\ \E i \in DOMAIN ce : ce[i] > 0

\* C2 as claimed: a sample with at least floor(p * k) negative anchors has exactly
\* floor(p * k) anchors marked in the mask, p its number of positives.
C2_ExactlyFloor ==
  Mined =>
    \A b \in Samples :
      LET keep == (PositivesOf(b) * k[1]) \div k[2]
      IN (Len(gt_mb_labels[b]) - PositivesOf(b) >= keep) => SelectedOf(b) = keep

CeilDiv(a, d) == (a + d - 1) \div d

Min(a, c) == IF a <= c THEN a ELSE c

\* C2 amended: every sample has exactly min(K, ceil(p * k)) anchors marked in the
\* mask (the ranks below p * k), which is floor(p * k) when p * k is an integer.
C2_ExactlyCeil ==
  Mined =>
    \A b \in Samples :
      SelectedOf(b) = Min(Len(gt_mb_labels[b]), CeilDiv(PositivesOf(b) * k[1], k[2]))

C2_Witness ==
  /\ Mined
  /\ k = <<3, 2>>
  /\ \E b \in Samples :
       /\ PositivesOf(b) = 1
       /\ Len(gt_mb_labels[b]) = 3
       /\ SelectedOf(b) = 2

\* C3 as claimed: with arm_confs given, an anchor of objectness 0 adds nothing to
\* loc_loss and nothing to conf_loss.
C3_ObjectnessGatesBoth ==
  (Mined /\ arm_confs # None) =>
    \A b \in Samples : \A j \in AnchorsOf(b) :
      locals.objectness[b][j] = 0 =>
        /\ locals.loc_terms[b][j] = 0
        /\ locals.conf_terms[b][j] = 0

\* C4: both results are non-negative quotients.
C4_NonNegative ==
  Returned =>
    /\ LocValue.num >= 0
    /\ LocValue.den > 0
    /\ ConfValue.num >= 0
    /\ ConfValue.den > 0

C4_Witness ==
  /\ Mined
  /\ arm_confs # None
  /\ LocValue.num > 0
  /\ ConfValue.num > 0

Minus(gt, arm) ==
  [b \in DOMAIN gt |-> [j \in DOMAIN gt[b] |->
     [c \in DOMAIN gt[b][j] |-> gt[b][j][c] - arm[b][j][c]]]]

SameResults(r) ==
  /\ r.status = pc
  /\ r.heap = heap
  /\ r.loc_loss = loc_loss
  /\ r.conf_loss = conf_loss
  /\ r.locals.hard_negative = locals.hard_negative

\* C5: a call with targets g and arm_locs = a ends as the call with targets g - a
\* and no arm_locs does (for the same outcome of the sorts), and its conf_loss is
\* the one of the call with targets g and no arm_locs.
C5_ShiftByArmLocs ==
  (Called /\ arm_locs # None) =>
    /\ \E r \in multibox_loss_outcomes(mb_locs, mb_confs_shape, ce,
                                       Minus(gt_mb_locs, arm_locs), gt_mb_labels,
                                       k, binarize, arm_confs, None) :
         SameResults(r)
    /\ \E r \in multibox_loss_outcomes(mb_locs, mb_confs_shape, ce, gt_mb_locs,
                                       gt_mb_labels, k, binarize, arm_confs, None) :
         /\ r.status = pc
         /\ Returned => r.heap[r.conf_loss] = ConfValue
         /\ (\A b \in DOMAIN arm_locs : \A j \in DOMAIN arm_locs[b] :
               \A c \in DOMAIN arm_locs[b][j] : arm_locs[b][j][c] = 0)
              => r.heap = heap

C5_Witness ==
  /\ Mined
  /\ arm_locs # None
  /\ \E b \in Samples : \E j \in AnchorsOf(b) :
       /\ LabelPositive(b, j)
       /\ arm_locs[b][j][1] # 0
       /\ gt_mb_locs[b][j][1] # 0
  /\ LocValue.num > 0

TargetShape == <<Len(gt_mb_labels), Len(gt_mb_labels[1])>>

\* the call reached the per-anchor classification loss
ReachedElementwise == Called /\ ~NoPositiveLabel

\* C6 as claimed: in binary mode, confidences of shape (B, K, 1) and of shape
\* (B, K) both give an unreduced loss of shape (B, K) and no error.
C6_BothShapesAccepted ==
  (ReachedElementwise /\ binarize
     /\ mb_confs_shape \in {TargetShape \o <<1>>, TargetShape}) =>
    /\ Returned
    /\ ShapeOf(locals.conf_elem) = TargetShape

\* C6 amended: in binary mode, confidences of shape (B, K, 1) give an unreduced
\* loss of shape (B, K) and no error; confidences of shape (B, K) fail the
\* assertion on the shapes.
C6_TrailingAxisNeeded ==
  (ReachedElementwise /\ binarize) =>
    /\ mb_confs_shape = TargetShape \o <<1>> =>
         (Returned /\ ShapeOf(locals.conf_elem) = TargetShape)
    /\ mb_confs_shape = TargetShape => pc = "AssertionError"

C6_Witness ==
  /\ ReachedElementwise
  /\ binarize
  /\ mb_confs_shape = TargetShape
  /\ pc = "AssertionError"

\* C7 as claimed: in the degenerate case the two results are distinct objects.
C7_IndependentZeros == (Returned /\ NoPositiveLabel) => loc_loss # conf_loss

\* C7 amended: in the degenerate case the two results are one zero scalar, the
\* only object the call created.
C7_SameZero ==
  (Returned /\ NoPositiveLabel) =>
    /\ loc_loss = conf_loss
    /\ Len(heap) = 1
    /\ LocValue = Zero

C7_Witness ==
  /\ Returned
  /\ NoPositiveLabel
  /\ loc_loss = conf_loss
  /\ loc_loss \in DOMAIN heap

\* C8: both losses are divided by the number of anchors with a label > 0, also
\* after the objectness mask has narrowed the positive mask.
C8_OriginalDenominator ==
  Mined =>
    /\ ConfValue.den = BatchPositives
    /\ LocValue.den = BatchPositives
    /\ locals.divisors = <<BatchPositives, BatchPositives>>

C8_Witness ==
  /\ Mined
  /\ arm_confs # None
  /\ \A b \in Samples : \A j \in AnchorsOf(b) : ~locals.positive[b][j]
  /\ BatchPositives = 2
  /\ ConfValue.den = 2

\* C9: within a sample, a selected negative of objectness 1 has at least the loss
\* of an unselected one; and a positive is selected only if every negative of
\* objectness 1 and loss > 0 is.
C9_HighestLossFirst ==
  Mined =>
    \A b \in Samples :
      /\ \A i, j \in AnchorsOf(b) :
           (/\ ~LabelPositive(b, i) /\ ObjectOne(b, i) /\ locals.hard_negative[b][i]
            /\ ~LabelPositive(b, j) /\ ObjectOne(b, j) /\ ~locals.hard_negative[b][j])
             => locals.conf_elem[b][i] >= locals.conf_elem[b][j]
      /\ \A i, j \in AnchorsOf(b) :
           (/\ LabelPositive(b, i) /\ locals.hard_negative[b][i]
            /\ ~LabelPositive(b, j) /\ ObjectOne(b, j) /\ locals.conf_elem[b][j] > 0)
             => locals.hard_negative[b][j]

C9_Witness ==
  /\ Mined
  /\ arm_confs # None
  /\ \E b \in Samples : \E i, j \in AnchorsOf(b) :
       /\ ~LabelPositive(b, i) /\ ObjectOne(b, i) /\ locals.hard_negative[b][i]
       /\ ~LabelPositive(b, j) /\ ObjectOne(b, j) /\ ~locals.hard_negative[b][j]
       /\ locals.conf_elem[b][i] > locals.conf_elem[b][j]

\* C10: in a batch with a positive anchor, a sample without one has an all-false
\* hard-negative mask and adds nothing to either loss.
C10_SampleWithoutPositives ==
  Mined =>
    \A b \in Samples :
      PositivesOf(b) = 0 =>
        \A j \in AnchorsOf(b) :
          /\ ~locals.hard_negative[b][j]
          /\ locals.loc_terms[b][j] = 0
          /\ locals.conf_terms[b][j] = 0

C10_Witness ==
  /\ Mined
  /\ \E b \in Samples : \E j \in AnchorsOf(b) :
       /\ PositivesOf(b) = 0
       /\ ObjectOne(b, j)
       /\ arm_confs # None
       /\ locals.conf_elem[b][j] > 0
       /\ mb_locs[b][j] # gt_mb_locs[b][j]
       /\ ~locals.hard_negative[b][j]
       /\ locals.conf_terms[b][j] = 0

====
